---- MODULE Spec2Model ----
(***************************************************************************)
(* The OBJ mesh / MTL material decoder (OBJMesh) and the PPM image decoder *)
(* (TextureLoader) of Assignment08_TexturedModelParser, as state machines. *)
(*                                                                         *)
(* OBJMesh.cpp holds two generations of each class.  The model follows the *)
(* one main.cpp is written against: the OBJMesh with LoadTextures and the  *)
(* three-index ParseVertexIndices (lines 234-461), and the ReadImageData   *)
(* that post-processes the samples (lines 470-604).                        *)
(*                                                                         *)
(* Text is a sequence of one-character strings, so that find, substr and   *)
(* stoi work on it as they do in the code.  A float is modelled by an      *)
(* integer, a normalised normal component by a pair <<n, d>> (n over d).   *)
(***************************************************************************)
EXTENDS Integers, Sequences, FiniteSets, TLC

VARIABLES
    pc,                   \* where the caller of the OBJMesh is
    filename,             \* LoadOBJ's argument
    line,                 \* the line std::getline read last
    positions,            \* std::vector<glm::vec3>
    normals,              \* std::vector<glm::vec3>
    texCoords,            \* std::vector<glm::vec2>
    m_triangles,          \* std::vector<Triangle>
    m_material,           \* Material {name, diffuseTexture}
    m_pendingTexturePath, \* std::string
    m_textureID,          \* GLuint
    oob,                  \* the pools the last line read outside their bounds
    faceLog,              \* history: the f lines read, with the pool sizes then
    img,                  \* the image decoder's last call (TextureLoader)
    probe,                \* a call of ParseVertexIndices: its token and result
    calls                 \* history: the calls made so far and what they returned

meshVars == <<pc, filename, line, positions, normals, texCoords, m_triangles,
              m_material, m_pendingTexturePath, m_textureID, oob, faceLog>>

vars == <<pc, filename, line, positions, normals, texCoords, m_triangles,
          m_material, m_pendingTexturePath, m_textureID, oob, faceLog, img,
          probe, calls>>

---------------------------------------------------------------------------
(* Bounds *)

MaxTris == 2          \* f lines read from one mesh file

MaxCalls == 3         \* LoadOBJ and LoadTextures calls made on one OBJMesh

---------------------------------------------------------------------------
(* std::string *)

\* size_t arithmetic wraps at SIZE_MAX + 1; 2^16 stands for 2^64 here.
SizeMod == 65536

npos == SizeMod - 1

ToSizeT(i) == i % SizeMod

Min(S) == CHOOSE m \in S : \A o \in S : m <= o

Max(S) == CHOOSE m \in S : \A o \in S : m >= o

\* s.find(ch, from): the first 0-based place of ch at or after from, or npos
Find(s, ch, from) ==
    LET hits == { i \in 0..(Len(s) - 1) : i >= from /\ s[i + 1] = ch }
    IN  IF hits = {} THEN npos ELSE Min(hits)

\* a search in which only '/' counts as a separator
FindLastSlashOnly(s) ==
    LET hits == { i \in 0..(Len(s) - 1) : s[i + 1] = "/" }
    IN  IF hits = {} THEN npos ELSE Max(hits)

\* s.find_last_of("/\\")
FindLastOfSlash(s) ==
    LET hits == { i \in 0..(Len(s) - 1) : s[i + 1] \in {"/", "\\"} }
    IN  IF hits = {} THEN npos ELSE Max(hits)

\* s.substr(pos, count), for pos <= s.size(): count is cut at the end of s
Substr(s, pos, count) ==
    LET last == IF count >= Len(s) - pos THEN Len(s) ELSE pos + count
    IN  SubSeq(s, pos + 1, last)

Digits == <<"0", "1", "2", "3", "4", "5", "6", "7", "8", "9">>

IsDigit(c) == \E d \in 1..10 : Digits[d] = c

DigitVal(c) == (CHOOSE d \in 1..10 : Digits[d] = c) - 1

RECURSIVE DecimalValue(_)
DecimalValue(ds) ==
    IF ds = <<>> THEN 0
    ELSE 10 * DecimalValue(SubSeq(ds, 1, Len(ds) - 1)) + DigitVal(ds[Len(ds)])

\* std::stoi(s): an optional sign, then the longest run of digits; what follows
\* the digits is ignored; with no digit it throws std::invalid_argument.
stoi(s) ==
    LET signed == s # <<>> /\ s[1] \in {"-", "+"}
        body   == IF signed THEN Tail(s) ELSE s
        stops  == { i \in 1..Len(body) : ~IsDigit(body[i]) }
        n      == IF stops = {} THEN Len(body) ELSE Min(stops) - 1
        val    == DecimalValue(SubSeq(body, 1, n))
    IN  IF n = 0 THEN [ok |-> FALSE, val |-> 0]
        ELSE [ok |-> TRUE,
              val |-> IF signed /\ s[1] = "-" THEN 0 - val ELSE val]

---------------------------------------------------------------------------
(* The files the decoders are given *)

RECURSIVE Text(_)
\* the decimal text of an integer, as it stands in a file
Text(n) ==
    IF n < 0 THEN <<"-">> \o Text(0 - n)
    ELSE IF n < 10 THEN <<Digits[n + 1]>>
    ELSE Text(n \div 10) \o <<Digits[(n % 10) + 1]>>

\* one face-vertex token of each form of the grammar
FaceTok(form, v, vt, vn) ==
    CASE form = "v"       -> Text(v)
      [] form = "v/vt"    -> Text(v) \o <<"/">> \o Text(vt)
      [] form = "v//vn"   -> Text(v) \o <<"/", "/">> \o Text(vn)
      [] form = "v/vt/vn" -> Text(v) \o <<"/">> \o Text(vt) \o <<"/">> \o Text(vn)

Forms == {"v", "v/vt", "v//vn", "v/vt/vn"}

Line(type, toks) == [type |-> type, toks |-> toks]

NoLine == Line("", <<>>)

\* The position, normal and texture-coordinate lines a mesh file holds, in the
\* order it holds them: the k-th line of a kind carries values of its own, so that
\* the entries of a pool differ from each other and from those of the other pools.
PosLines ==
    <<Line("v", <<Text(1), Text(2), Text(3)>>),
      Line("v", <<Text(4), Text(5), Text(6)>>)>>

MalformedPosLines ==
    { Line("v", <<Text(1), <<"a", "b", "c">>, Text(3)>>),
      Line("v", <<Text(1), Text(2)>>) }

NormalLines ==
    <<Line("vn", <<Text(3), Text(4), Text(0)>>),
      Line("vn", <<Text(0), Text(0), Text(2)>>)>>

ZeroNormalLines == { Line("vn", <<Text(0), Text(0), Text(0)>>) }

TexLines ==
    <<Line("vt", <<Text(2), Text(3)>>),
      Line("vt", <<Text(5), Text(7)>>)>>

\* f lines of the four forms of the grammar
FaceLines ==
    { Line("f", <<FaceTok("v", 1, 0, 0), FaceTok("v", 2, 0, 0),
                  FaceTok("v", 1, 0, 0)>>),
      Line("f", <<FaceTok("v/vt", 1, 1, 0), FaceTok("v/vt", 2, 2, 0),
                  FaceTok("v/vt", 1, 2, 0)>>),
      Line("f", <<FaceTok("v//vn", 1, 0, 1), FaceTok("v//vn", 2, 0, 2),
                  FaceTok("v//vn", 2, 0, 1)>>),
      Line("f", <<FaceTok("v/vt/vn", 1, 2, 1), FaceTok("v/vt/vn", 2, 1, 2),
                  FaceTok("v/vt/vn", 1, 1, 2)>>) }

\* f lines whose indices are 0, negative or past any pool, and f lines with
\* fewer or more than three tokens
BadFaceLines ==
    { Line("f", <<FaceTok("v/vt/vn", 1, 0, 1), FaceTok("v/vt/vn", 1, 3, 1),
                  FaceTok("v/vt/vn", 1, 1, 1)>>),
      Line("f", <<FaceTok("v/vt/vn", 0, 1, 1), FaceTok("v/vt/vn", 0 - 1, 1, 3),
                  FaceTok("v/vt/vn", 3, 1, 0)>>),
      Line("f", <<FaceTok("v/vt/vn", 1, 1, 1), FaceTok("v/vt/vn", 2, 1, 1)>>),
      Line("f", <<FaceTok("v/vt/vn", 1, 1, 1), FaceTok("v/vt/vn", 2, 1, 1),
                  FaceTok("v/vt/vn", 1, 1, 1), FaceTok("v/vt/vn", 2, 2, 2)>>) }

MtllibLines == { Line("mtllib", <<<<"m">>>>), Line("mtllib", <<<<"e", "/", "m">>>>) }

OtherLines == { Line("#", <<>>) }

ObjPaths == { <<"d", "/", "o">> }

MtlFiles ==
    { <<Line("newmtl", <<<<"A">>>>)>>,
      <<Line("newmtl", <<<<"A">>>>), Line("map_Kd", <<<<"t">>>>)>>,
      <<Line("map_Kd", <<<<"t">>>>), Line("newmtl", <<<<"B">>>>),
        Line("map_Kd", <<<<"s", "/", "u">>>>), Line("Kd", <<>>)>> }

\* what a read of an uninitialised float, or of memory past a vector, may give
Indeterminate == {0, 9}

---------------------------------------------------------------------------
(* OBJMesh::ParseVertexIndices *)

Thrown == [ok |-> FALSE, v |-> 0, vt |-> 0, vn |-> 0]

\* the texture index as returned: 0 when it is not below texCoords.size(), the
\* int being converted to size_t for the comparison
ClampVt(vtIdx, texSize) == IF ToSizeT(vtIdx) >= texSize THEN 0 ELSE vtIdx

\* the normal string of a token: vertexStr.substr(slash2 + 1), where slash2 + 1
\* wraps to 0 when there is no second slash
VnStr(vertexStr, slash2) == Substr(vertexStr, ToSizeT(slash2 + 1), npos)

ParseVertexIndices(vertexStr, texSize) ==
    LET slash1 == Find(vertexStr, "/", 0)
        slash2 == Find(vertexStr, "/", ToSizeT(slash1 + 1))
        whole  == stoi(vertexStr)
        vStr   == Substr(vertexStr, 0, slash1)
        vtStr  == Substr(vertexStr, slash1 + 1, ToSizeT(slash2 - slash1 - 1))
        vnStr  == VnStr(vertexStr, slash2)
        vI     == stoi(vStr)
        vtI    == stoi(vtStr)
        vnI    == stoi(vnStr)
    IN  IF slash1 = npos
        THEN IF whole.ok
             THEN [ok |-> TRUE, v |-> whole.val - 1, vt |-> 0, vn |-> 0]
             ELSE Thrown
        ELSE IF \/ ~vI.ok
                \/ (vtStr # <<>> /\ ~vtI.ok)
                \/ (vnStr # <<>> /\ ~vnI.ok)
             THEN Thrown
             ELSE [ok |-> TRUE,
                   v  |-> vI.val - 1,
                   vt |-> ClampVt(IF vtStr = <<>> THEN 0 ELSE vtI.val - 1,
                                  texSize),
                   vn |-> IF vnStr = <<>> THEN 0 ELSE vnI.val - 1]

---------------------------------------------------------------------------
(* OBJMesh: construction *)

EmptyMaterial == [name |-> <<>>, diffuseTexture |-> <<>>]

NoImage == [called |-> FALSE]

NoProbe == [called |-> FALSE]

Init ==
    /\ pc = "constructed"
    /\ filename = <<>>
    /\ line = NoLine
    /\ positions = <<>>
    /\ normals = <<>>
    /\ texCoords = <<>>
    /\ m_triangles = <<>>
    /\ m_material = EmptyMaterial
    /\ m_pendingTexturePath = <<>>
    /\ m_textureID = 0
    /\ oob = {}
    /\ faceLog = <<>>
    /\ img = NoImage
    /\ probe = NoProbe
    /\ calls = <<>>

---------------------------------------------------------------------------
(* OBJMesh::LoadMTL *)

\* the directory of a path: the path up to and with its last separator
Directory(path) ==
    LET lastSlash == FindLastOfSlash(path)
    IN  IF lastSlash # npos THEN Substr(path, 0, lastSlash + 1) ELSE <<>>

\* an extraction that leaves a string alone once it holds a name
ReadWordOnce(toks, old) ==
    IF old # <<>> THEN old ELSE IF toks # <<>> THEN toks[1] ELSE old

\* iss >> str: the next token, or the string as it was when there is none
ReadWord(toks, old) == IF toks # <<>> THEN toks[1] ELSE old

RECURSIVE MtlLoop(_, _, _, _)
\* the getline loop of LoadMTL over the lines left, from material mat and
\* pending path pend
MtlLoop(lines, path, mat, pend) ==
    IF lines = <<>> THEN [material |-> mat, pending |-> pend]
    ELSE LET l == Head(lines)
         IN  IF l.type = "newmtl"
             THEN MtlLoop(Tail(lines), path,
                          [mat EXCEPT !.name = ReadWord(l.toks, @)], pend)
             ELSE IF l.type = "map_Kd"
             THEN LET tex == ReadWord(l.toks, mat.diffuseTexture)
                  IN  MtlLoop(Tail(lines), path,
                              [mat EXCEPT !.diffuseTexture = tex],
                              Directory(path) \o tex)
             ELSE MtlLoop(Tail(lines), path, mat, pend)

\* a LoadMTL that takes the path of a file it cannot open for the texture path
LoadMTLStoresPath(path, opens, lines, mat, pend) ==
    IF ~opens THEN [material |-> mat, pending |-> path]
    ELSE MtlLoop(lines, path, mat, pend)

\* LoadMTL(path) on a file that opens with these lines, or does not open
LoadMTL(path, opens, lines, mat, pend) ==
    IF ~opens THEN [material |-> mat, pending |-> pend]
    ELSE MtlLoop(lines, path, mat, pend)

RECURSIVE DecodesEager(_, _, _)
\* the earlier LoadMTL: one TextureLoader::LoadPPM call for each map_Kd line
DecodesEager(path, opens, lines) ==
    IF ~opens \/ lines = <<>> THEN <<>>
    ELSE IF Head(lines).type = "map_Kd"
    THEN <<[op |-> "LoadPPM",
            arg |-> Directory(path) \o ReadWord(Head(lines).toks, <<>>),
            ok |-> TRUE]>>
         \o DecodesEager(path, opens, Tail(lines))
    ELSE DecodesEager(path, opens, Tail(lines))

RECURSIVE Directives(_)
\* history: the newmtl and map_Kd lines the getline loop of LoadMTL comes to, in
\* file order, each with the name it gives (empty when it gives none)
Directives(lines) ==
    IF lines = <<>> THEN <<>>
    ELSE LET l == Head(lines)
         IN  (IF l.type \in {"newmtl", "map_Kd"}
              THEN <<[op |-> l.type, arg |-> ReadWord(l.toks, <<>>), ok |-> TRUE]>>
              ELSE <<>>)
             \o Directives(Tail(lines))

\* the TextureLoader calls LoadMTL makes while it reads these lines: none, the
\* map_Kd branch only stores the path
DecodesInMTL(path, opens, lines) == <<>>

---------------------------------------------------------------------------
(* OBJMesh::LoadOBJ *)

\* iss >> x >> y >> z ...: the k floats a line's tokens give.  A token that is
\* no number stores 0 and fails the stream; once the stream has failed, or the
\* tokens have run out, the variable keeps its uninitialised value g.
IsNumber(tok) ==
    LET r == stoi(tok)
        signed == tok # <<>> /\ tok[1] \in {"-", "+"}
    IN  r.ok /\ \A i \in (IF signed THEN 2 ELSE 1)..Len(tok) : IsDigit(tok[i])

ReadFloats(toks, k, g) ==
    [i \in 1..k |->
        IF \E j \in 1..(i - 1) : j > Len(toks) \/ ~IsNumber(toks[j]) THEN g
        ELSE IF i > Len(toks) THEN g
        ELSE IF ~IsNumber(toks[i]) THEN 0
        ELSE stoi(toks[i]).val]

ReadFails(toks, k) == \E j \in 1..k : j > Len(toks) \/ ~IsNumber(toks[j])

\* the integer square root of n, when n is a square
IsSquare(n) == \E r \in 0..n : r * r = n

Sqrt(n) == CHOOSE r \in 0..n : r * r = n

\* glm::normalize(v) = v * inversesqrt(dot(v, v)); each component is n over d,
\* and the zero vector gives 0 * inf, written <<0, 0>>
Normalize(v) ==
    LET dot == v[1] * v[1] + v[2] * v[2] + v[3] * v[3]
        len == IF IsSquare(dot) THEN Sqrt(dot) ELSE 0
    IN  [i \in 1..3 |-> <<v[i], len>>]

Vertex(pos, normal, tex) ==
    [x |-> pos[1], y |-> pos[2], z |-> pos[3],
     r |-> "0.7", g |-> "0.7", b |-> "0.7",
     nx |-> normal[1], ny |-> normal[2], nz |-> normal[3],
     s |-> tex[1], t |-> tex[2]]

\* iss >> vertex1 >> vertex2 >> vertex3: the i-th token, empty when missing
FaceToken(toks, i) == IF i <= Len(toks) THEN toks[i] ELSE <<>>

InBounds(pool, idx) == 0 <= idx /\ idx < Len(pool)

\* pool[idx] by the unchecked operator[]: the entry, or whatever lies there
At(pool, idx, garbage) == IF InBounds(pool, idx) THEN pool[idx + 1] ELSE garbage

\* the index looked up in texCoords for a corner
\* the two-index variant's lookup, texCoords[v]
TexIndexAsV(p) == p.v

TexIndex(p) == p.vt

\* the corner's Vertex from the three pools
Corner(p, g) ==
    Vertex(At(positions, p.v, <<g, g, g>>),
           At(normals, p.vn, <<<<g, 1>>, <<g, 1>>, <<g, 1>>>>),
           At(texCoords, TexIndex(p), <<g, g>>))

\* the pools a corner reads outside their bounds
CornerOob(p) ==
    (IF InBounds(positions, p.v) THEN {} ELSE {"positions"})
    \cup (IF InBounds(normals, p.vn) THEN {} ELSE {"normals"})
    \cup (IF InBounds(texCoords, TexIndex(p)) THEN {} ELSE {"texCoords"})

\* m_triangles after the push_back of the f branch
\* the other end of the vector: newest triangle first
PushTriangleFront(tris, tri) == <<tri>> \o tris

PushTriangle(tris, tri) == Append(tris, tri)

\* a v branch that puts the new position at the front of the pool
PushPositionFront(pool, toks, g) == <<ReadFloats(toks, 3, g)>> \o pool

\* positions after the v branch
PushPosition(pool, toks, g) == Append(pool, ReadFloats(toks, 3, g))

\* the vt branch of the earlier LoadOBJ, which stores (s, 1 - t)
PushTexCoordFlipped(pool, toks, g) ==
    LET st == ReadFloats(toks, 2, g)
    IN  Append(pool, <<st[1], 1 - st[2]>>)

\* texCoords after the vt branch: glm::vec2(s, t) as read
PushTexCoord(pool, toks, g) == Append(pool, ReadFloats(toks, 2, g))

\* one entry of the history: the function called, its path argument and
\* whether it reported success
Call(op, arg, ok) == [op |-> op, arg |-> arg, ok |-> ok]

\* how many entries of the history are calls of these functions
Count(log, ops) == Cardinality({ i \in 1..Len(log) : log[i].op \in ops })

\* the states in which the caller may call the OBJMesh
Idle == {"constructed", "returnedTrue", "returnedFalse"}

\* a vector after LoadOBJ's first lines: cleared once the file is open
ClearedFirst(pool, opens) == <<>>

Cleared(pool, opens) == IF opens THEN <<>> ELSE pool

\* LoadOBJ(f) up to its getline loop, on a file that opens or does not
OpenOBJ(f, opens) ==
    /\ filename' = f
    /\ calls' = Append(calls, Call("LoadOBJ", f, opens))
    /\ positions' = Cleared(positions, opens)
    /\ normals' = Cleared(normals, opens)
    /\ texCoords' = Cleared(texCoords, opens)
    /\ m_triangles' = Cleared(m_triangles, opens)
    /\ faceLog' = IF opens THEN <<>> ELSE faceLog
    /\ pc' = IF opens THEN "loading" ELSE "returnedFalse"
    /\ UNCHANGED <<line, m_material, m_pendingTexturePath, m_textureID, oob,
                   img, probe>>

\* the first LoadOBJ call on the object
LoadOBJ_Open ==
    /\ pc = "constructed"
    /\ \E f \in ObjPaths, opens \in BOOLEAN : OpenOBJ(f, opens)

\* a later LoadOBJ call on the same object
LoadOBJ_Again ==
    /\ pc \in Idle \ {"constructed"}
    /\ Count(calls, {"LoadOBJ", "LoadTextures"}) < MaxCalls
    /\ \E f \in ObjPaths, opens \in BOOLEAN : OpenOBJ(f, opens)

\* what every iteration of the getline loop does before it dispatches
ReadLine(l) ==
    /\ pc = "loading"
    /\ line' = l
    /\ UNCHANGED <<filename, img, probe>>

\* the mtllib branch on line l, on a material file that opens with this
\* content or does not open
Mtllib(l, opens, content) ==
    /\ ReadLine(l)
    /\ LET path == Directory(filename) \o l.toks[1]
           done == LoadMTL(path, opens, content, m_material,
                           m_pendingTexturePath)
       IN  /\ m_material' = done.material
           /\ m_pendingTexturePath' = done.pending
           /\ calls' = calls \o DecodesInMTL(path, opens, content)
                             \o (IF opens THEN Directives(content) ELSE <<>>)
                             \o <<Call("LoadMTL", path, opens)>>
    /\ oob' = {}
    /\ UNCHANGED <<pc, positions, normals, texCoords, m_triangles, faceLog,
                   m_textureID>>

LoadOBJ_mtllib ==
    \E l \in MtllibLines, opens \in BOOLEAN, content \in MtlFiles :
        Mtllib(l, opens, content)

LoadOBJ_v ==
    \E g \in {0} :
        /\ Len(positions) < Len(PosLines)
        /\ ReadLine(PosLines[Len(positions) + 1])
        /\ positions' = PushPosition(positions, line'.toks, g)
        /\ oob' = {}
        /\ UNCHANGED <<pc, normals, texCoords, m_triangles, m_material,
                       m_pendingTexturePath, faceLog, m_textureID, calls>>

\* the v branch on a line with a component that is no number, or is missing
LoadOBJ_vMalformed ==
    \E l \in MalformedPosLines, g \in Indeterminate :
        /\ Len(positions) < Len(PosLines)
        /\ ReadLine(l)
        /\ positions' = PushPosition(positions, l.toks, g)
        /\ oob' = {}
        /\ UNCHANGED <<pc, normals, texCoords, m_triangles, m_material,
                       m_pendingTexturePath, faceLog, m_textureID, calls>>

LoadOBJ_vn ==
    \E g \in {0} :
        /\ Len(normals) < Len(NormalLines)
        /\ ReadLine(NormalLines[Len(normals) + 1])
        /\ normals' = Append(normals, Normalize(ReadFloats(line'.toks, 3, g)))
        /\ oob' = {}
        /\ UNCHANGED <<pc, positions, texCoords, m_triangles, m_material,
                       m_pendingTexturePath, faceLog, m_textureID, calls>>

\* the vn branch on a line that holds the zero vector
LoadOBJ_vnZero ==
    \E l \in ZeroNormalLines :
        /\ Len(normals) < Len(NormalLines)
        /\ ReadLine(l)
        /\ normals' = Append(normals, Normalize(ReadFloats(l.toks, 3, 0)))
        /\ oob' = {}
        /\ UNCHANGED <<pc, positions, texCoords, m_triangles, m_material,
                       m_pendingTexturePath, faceLog, m_textureID, calls>>

LoadOBJ_vt ==
    \E g \in {0} :
        /\ Len(texCoords) < Len(TexLines)
        /\ ReadLine(TexLines[Len(texCoords) + 1])
        /\ texCoords' = PushTexCoord(texCoords, line'.toks, g)
        /\ oob' = {}
        /\ UNCHANGED <<pc, positions, normals, m_triangles, m_material,
                       m_pendingTexturePath, faceLog, m_textureID, calls>>

LoadOBJ_f ==
    \E l \in FaceLines \cup BadFaceLines, g \in Indeterminate, crash \in BOOLEAN :
        /\ Len(faceLog) < MaxTris
        /\ line' = l
        /\ faceLog' = Append(faceLog, [toks |-> l.toks,
                                       np |-> Len(positions),
                                       nn |-> Len(normals),
                                       nt |-> Len(texCoords)])
        /\ LET p == [i \in 1..3 |->
                        ParseVertexIndices(FaceToken(l.toks, i), Len(texCoords))]
               out == CornerOob(p[1]) \cup CornerOob(p[2]) \cup CornerOob(p[3])
               tri == [i \in 1..3 |-> Corner(p[i], g)]
           IN  IF \E i \in 1..3 : ~p[i].ok
               THEN \* std::invalid_argument leaves LoadOBJ and nothing catches it
                    /\ pc' = "terminated"
                    /\ oob' = {}
                    /\ ~crash /\ g = 0
                    /\ UNCHANGED m_triangles
               ELSE IF crash
               THEN \* the read outside the vector faults
                    /\ out # {} /\ g = 0
                    /\ pc' = "crashed"
                    /\ oob' = out
                    /\ UNCHANGED m_triangles
               ELSE /\ (out = {} => g = 0)
                    /\ pc' = "loading"
                    /\ oob' = out
                    /\ m_triangles' = PushTriangle(m_triangles, tri)
        /\ pc = "loading"
        /\ UNCHANGED <<filename, m_textureID, img, probe, positions, normals, texCoords,
                       m_material, m_pendingTexturePath, calls>>

LoadOBJ_other ==
    \E l \in OtherLines :
        /\ ReadLine(l)
        /\ oob' = {}
        /\ UNCHANGED <<pc, positions, normals, texCoords, m_triangles, m_material,
                       m_pendingTexturePath, faceLog, m_textureID, calls>>

\* std::getline finds the end of the file: LoadOBJ returns true
LoadOBJ_Return ==
    /\ pc = "loading"
    /\ pc' = "returnedTrue"
    /\ UNCHANGED <<filename, line, positions, normals, texCoords, m_triangles,
                   m_material, m_pendingTexturePath, m_textureID, oob, faceLog,
                   img, probe, calls>>

GetTriangleCount == Len(m_triangles)

\* The mesh files read under SpecMesh hold their v, vn and vt lines before
\* their f lines.
PoolsFirst == faceLog = <<>>

NextMesh ==
    \/ LoadOBJ_Open
    \/ (PoolsFirst /\ LoadOBJ_v)
    \/ (PoolsFirst /\ LoadOBJ_vn)
    \/ (PoolsFirst /\ LoadOBJ_vt)
    \/ LoadOBJ_f
    \/ LoadOBJ_other
    \/ LoadOBJ_Return

SpecMesh == Init /\ [][NextMesh]_vars

\* Mesh files that may hold malformed v lines, and no f line.
NextMalformed ==
    \/ LoadOBJ_Open
    \/ LoadOBJ_v
    \/ LoadOBJ_vMalformed
    \/ LoadOBJ_vn
    \/ LoadOBJ_vt
    \/ LoadOBJ_other
    \/ LoadOBJ_Return

SpecMalformed == Init /\ [][NextMalformed]_vars

\* Mesh files whose vn lines may hold the zero vector, with at most one f line,
\* well formed, after the pools are complete.
NextNormals ==
    \/ LoadOBJ_Open
    \/ (PoolsFirst /\ LoadOBJ_v)
    \/ (PoolsFirst /\ LoadOBJ_vn)
    \/ (PoolsFirst /\ LoadOBJ_vnZero)
    \/ (PoolsFirst /\ LoadOBJ_vt)
    \/ (/\ Len(positions) = Len(PosLines) /\ Len(normals) = Len(NormalLines)
        /\ Len(texCoords) = Len(TexLines) /\ PoolsFirst
        /\ LoadOBJ_f /\ line' \in FaceLines)
    \/ LoadOBJ_other
    \/ LoadOBJ_Return

SpecNormals == Init /\ [][NextNormals]_vars

\* Mesh files with one f line, of well-formed tokens, that stands anywhere
\* among the v, vn and vt lines: before some of them, or all.
NextInterleaved ==
    \/ LoadOBJ_Open
    \/ LoadOBJ_v
    \/ LoadOBJ_vn
    \/ LoadOBJ_vt
    \/ (faceLog = <<>> /\ LoadOBJ_f /\ line' \in FaceLines)
    \/ LoadOBJ_Return

SpecInterleaved == Init /\ [][NextInterleaved]_vars

---------------------------------------------------------------------------
(* ParseVertexIndices on its own: every token of the grammar, against every *)
(* size of the texture-coordinate pool                                      *)

MaxIdx == 3           \* the largest index a face-vertex token names

\* texCoords after its first k lines
TexPool(k) == [i \in 1..k |-> ReadFloats(TexLines[i].toks, 2, 0)]

\* an OBJMesh in the middle of LoadOBJ, its texture-coordinate pool holding the
\* first k vt lines
InitParse ==
    /\ pc = "loading"
    /\ filename \in ObjPaths
    /\ line = NoLine
    /\ positions = <<>>
    /\ normals = <<>>
    /\ m_triangles = <<>>
    /\ m_material = EmptyMaterial
    /\ m_pendingTexturePath = <<>>
    /\ m_textureID = 0
    /\ oob = {}
    /\ faceLog = <<>>
    /\ img = NoImage
    /\ calls = <<>>
    /\ \E k \in 0..Len(TexLines) : texCoords = TexPool(k)
    /\ \E form \in Forms, v, vt, vn \in (0 - 1)..MaxIdx :
          probe = [called |-> FALSE, form |-> form, v |-> v,
                   vt |-> IF form \in {"v/vt", "v/vt/vn"} THEN vt ELSE 0,
                   vn |-> IF form \in {"v//vn", "v/vt/vn"} THEN vn ELSE 0,
                   result |-> Thrown]

CallParseVertexIndices ==
    /\ ~probe.called
    /\ probe' = [probe EXCEPT
                    !.called = TRUE,
                    !.result = ParseVertexIndices(
                                   FaceTok(probe.form, probe.v, probe.vt, probe.vn),
                                   Len(texCoords))]
    /\ UNCHANGED <<pc, filename, line, positions, normals, texCoords, m_triangles,
                   m_material, m_pendingTexturePath, m_textureID, oob, faceLog,
                   img, calls>>

NextParse == CallParseVertexIndices

SpecParse == InitParse /\ [][NextParse]_vars

---------------------------------------------------------------------------
(* TextureLoader: the PPM files it is given *)

MaxDim == 2           \* the largest width and height a PPM header declares

Magics == {"P3", "P6", "P2"}

MaxVals == {255, 65535}

\* one sample of a file: a number, or an ASCII token that is no number
Sample(n) == [isNumber |-> TRUE, val |-> n]

Junk == [isNumber |-> FALSE, val |-> 0]

\* n samples, the i-th of value i + off; a P6 file holds them as bytes (from
\* off 8 the first bytes are 9, 10: a tab and a line feed; from 31, a space)
Samples(n, off, magic) ==
    [i \in 1..n |-> Sample(IF magic = "P6" THEN (i + off) % 256 ELSE i + off)]

\* the sample data of a file that declares n samples: all of them, one too few,
\* one too many, and (ASCII) one that is no number
Bodies(n, magic) ==
    LET lens == {n, n + 1} \cup (IF n > 0 THEN {n - 1} ELSE {})
        offs == {0, 250} \cup (IF magic = "P6" THEN {8, 31} ELSE {})
        good == { Samples(k, off, magic) : k \in lens, off \in offs }
        bad  == IF n > 0 /\ magic # "P6"
                THEN { [Samples(n, 0, magic) EXCEPT ![k] = Junk] : k \in {1, n} }
                ELSE {}
    IN  good \cup bad

\* what follows the max value in a P6 file before the samples: the one
\* separator byte, or nothing
Separators == { <<Sample(10)>>, <<>> }

\* the files with magic m that declare w by h pixels
PpmFilesOf(m, w, h) ==
    { [magic |-> m, width |-> w, height |-> h, maxval |-> mv,
       body |-> (IF m = "P6" THEN sep ELSE <<>>) \o b,
       comments |-> {}, unreadable |-> {}] :
        mv \in MaxVals, sep \in Separators, b \in Bodies(w * h * 3, m) }

\* the three numeric fields of a header
Fields == {"width", "height", "maxval"}

\* the dimensions a header may declare, zero and negative ones with them
HeaderDims == (0 - 1)..MaxDim

\* Files with all their samples whose header holds # comment lines before some
\* of its fields (comments), or a token that is no number in the place of one
\* field (unreadable).
HeaderFiles ==
    { [magic |-> m, width |-> w, height |-> h, maxval |-> mv,
       body |-> (IF m = "P6" THEN <<Sample(10)>> ELSE <<>>)
                \o Samples(w * h * 3, 0, m),
       comments |-> c, unreadable |-> u] :
        m \in {"P3", "P6"}, w \in HeaderDims, h \in HeaderDims, mv \in MaxVals,
        c \in SUBSET Fields, u \in {{}} \cup { {f} : f \in Fields } }

\* what an int that was never assigned may hold
IndeterminateInt == {0 - 1, 0, 300}

---------------------------------------------------------------------------
(* TextureLoader::ReadImageData *)

Null == <<"nullptr">>

\* a limit that admits 16-bit samples
TooDeepWide(maxColorValue) == maxColorValue > 65535

\* maxColorValue > 255
TooDeep(maxColorValue) == maxColorValue > 255

RECURSIVE SkipWhitespace(_)
\* a separator step that takes all the whitespace bytes that follow the max
\* value, as file >> std::ws would
SkipWhitespace(body) ==
    IF body # <<>> /\ Head(body).val \in {9, 10, 13, 32}
    THEN SkipWhitespace(Tail(body))
    ELSE body

\* file.get(): the P6 body after the one byte taken from it, whatever it is
SkipSeparator(body) == IF body # <<>> THEN Tail(body) ELSE body

\* the samples read into copyData: n of them from the body, after the one byte
\* file.get() takes from a P6 body.  A read past the end of the body, or of a
\* token that is no number, fails the stream, and so does a get() at the end.
ReadSamples(file, n) ==
    LET isBinary == file.magic = "P6"
        body     == IF isBinary THEN SkipSeparator(file.body) ELSE file.body
        getFails == isBinary /\ file.body = <<>>
        bad      == { i \in 1..n : i > Len(body) \/ ~body[i].isNumber }
        firstBad == IF bad = {} THEN n + 1 ELSE Min(bad)
    IN  [copyData |-> [i \in 1..n |->
                          IF i < firstBad /\ ~getFails THEN body[i].val % 256
                          ELSE 0],
         fail     |-> getFails \/ bad # {}]

RECURSIVE FlipLoop(_, _, _, _, _)
\* the loop of lines 587-592 from i and pos on; data and copyData are 0-based
FlipLoop(i, pos, data, copyData, total) ==
    IF ~(i < total) THEN data
    ELSE FlipLoop(i + 3, pos - 3,
                  [data EXCEPT ![pos + 1]     = copyData[i + 2 + 1],
                               ![pos - 1 + 1] = copyData[i + 1 + 1],
                               ![pos - 2 + 1] = copyData[i + 1]],
                  copyData, total)

\* a loop that starts at the second pixel of copyData
FlipFromSecond(copyData, total) ==
    FlipLoop(3, total - 1, [k \in 1..total |-> 0 - 1], copyData, total)

\* data after the post-processing loop, from a fresh (unwritten) buffer
Flip(copyData, total) ==
    FlipLoop(0, total - 1, [k \in 1..total |-> 0 - 1], copyData, total)

\* a stream whose failure goes unnoticed
StreamFailedNever(read) == FALSE

\* file.fail() at the end of ReadImageData
StreamFailed(read) == read.fail

\* one thing done to a byte buffer: new[], a write, a read or delete[], and the
\* function that does it
Event(op, buf, by) == [op |-> op, buf |-> buf, by |-> by]

\* what ReadImageData does to copyData and data from line 567 on, on a stream
\* that has failed by line 596 or has not
BufferEvents(failed) ==
    <<Event("new", "copyData", "ReadImageData"),
      Event("write", "copyData", "ReadImageData"),
      Event("new", "data", "ReadImageData"),
      Event("read", "copyData", "ReadImageData"),
      Event("write", "data", "ReadImageData"),
      Event("delete", "copyData", "ReadImageData")>>
    \o (IF failed THEN <<Event("delete", "data", "ReadImageData")>> ELSE <<>>)

\* what ReadImageData leaves when it returns before it reads the dimensions
Untouched ==
    [dimsSet |-> FALSE, width |-> 0, height |-> 0, data |-> Null,
     news |-> 0, deletes |-> 0, thrown |-> FALSE, events |-> <<>>]

\* The header after the magic token.  The loop that skips whitespace and #
\* lines runs once, before width; file >> n on a # or on a token that is no
\* number stores 0 and fails the stream, and on a failed stream it leaves n as
\* it was: gh and gm are what height and maxColorValue hold unassigned.
ParseHeader(file, gh, gm) ==
    LET badW == "width" \in file.unreadable
        badH == badW \/ "height" \in file.comments \cup file.unreadable
        badM == badH \/ "maxval" \in file.comments \cup file.unreadable
    IN  [width  |-> IF badW THEN 0 ELSE file.width,
         height |-> IF badW THEN gh ELSE IF badH THEN 0 ELSE file.height,
         maxColorValue |-> IF badH THEN gm ELSE IF badM THEN 0 ELSE file.maxval,
         fail   |-> badM]

\* ReadImageData: the out-parameters width, height and data, and how many
\* buffers it allocated and released
ReadImageData(opens, file, gh, gm) ==
    IF ~opens THEN Untouched
    ELSE IF file.magic # "P3" /\ file.magic # "P6"
    THEN Untouched
    ELSE LET hdr   == ParseHeader(file, gh, gm)
             total == hdr.width * hdr.height * 3
             got   == ReadSamples(file, total)
             read  == [got EXCEPT !.fail = @ \/ hdr.fail]
             dims  == [dimsSet |-> TRUE, width |-> hdr.width,
                       height |-> hdr.height, thrown |-> FALSE]
         IN  IF TooDeep(hdr.maxColorValue)
             THEN dims @@ [data |-> Null, news |-> 0, deletes |-> 0,
                           events |-> <<>>]
             ELSE IF total < 0
             THEN \* new unsigned char[total] throws, and nothing catches it
                  [dims EXCEPT !.thrown = TRUE]
                  @@ [data |-> Null, news |-> 0, deletes |-> 0, events |-> <<>>]
             ELSE IF StreamFailed(read)
             THEN dims @@ [data |-> Null, news |-> 2, deletes |-> 2,
                           events |-> BufferEvents(TRUE)]
             ELSE dims @@ [data |-> Flip(read.copyData, total), news |-> 2,
                           deletes |-> 1, events |-> BufferEvents(FALSE)]

---------------------------------------------------------------------------
(* TextureLoader::LoadPPM *)

\* a LoadPPM that releases the buffer before it uploads it
UploadAfterDelete(data) ==
    IF data = Null THEN <<>>
    ELSE <<Event("delete", "data", "LoadPPM"), Event("read", "data", "LoadPPM")>>

\* what LoadPPM does to the buffer ReadImageData gave it: nothing to a null one,
\* else glTexImage2D reads it and delete[] releases it
Upload(data) ==
    IF data = Null THEN <<>>
    ELSE <<Event("read", "data", "LoadPPM"), Event("delete", "data", "LoadPPM")>>

\* history: the texture names LoadPPM creates and deletes: glGenTextures gives
\* name once there is a buffer, and glDeleteTextures takes it back on a GL error
TextureCalls(data, glError, name) ==
    IF data = Null THEN <<>>
    ELSE <<Call("glGenTextures", Text(name), TRUE)>>
         \o (IF glError THEN <<Call("glDeleteTextures", Text(name), TRUE)>>
             ELSE <<>>)

\* LoadPPM(filepath) on a file that does not open, or opens with this content;
\* glError: glGetError() reports an error after the upload; name: the texture
\* name glGenTextures gives
Decode(opens, glError, file, gh, gm, name) ==
    LET out == ReadImageData(opens, file, gh, gm)
    IN  [called  |-> TRUE,
         opens   |-> opens,
         file    |-> file,
         dimsSet |-> out.dimsSet,
         width   |-> out.width,
         height  |-> out.height,
         data    |-> out.data,
         news    |-> out.news,
         deletes |-> IF out.data = Null THEN out.deletes ELSE out.deletes + 1,
         thrown  |-> out.thrown,
         events  |-> out.events \o Upload(out.data),
         uploaded |-> out.data # Null,
         textureID |-> IF out.data = Null \/ glError THEN 0 ELSE name]

\* one LoadPPM call on a file of this set
LoadPPMOn(files) ==
    /\ ~img.called
    /\ \E opens \in BOOLEAN, glError \in BOOLEAN, file \in files,
          gh \in IndeterminateInt, gm \in IndeterminateInt :
            /\ glError => ReadImageData(opens, file, gh, gm).data # Null
            /\ img' = Decode(opens, glError, file, gh, gm, 1)
    /\ UNCHANGED <<pc, filename, line, positions, normals, texCoords, m_triangles,
                   m_material, m_pendingTexturePath, m_textureID, oob, faceLog,
                   probe, calls>>

\* the files of every magic and size with a plain header
PpmFiles ==
    UNION { PpmFilesOf(m, w, h) : m \in Magics, w \in 0..MaxDim, h \in 0..MaxDim }

LoadPPM == LoadPPMOn(PpmFiles)

NextImage == LoadPPM

SpecImage == Init /\ [][NextImage]_vars

\* LoadPPM on the files of HeaderFiles
LoadPPM_Header == LoadPPMOn(HeaderFiles)

NextHeader == LoadPPM_Header

SpecHeader == Init /\ [][NextHeader]_vars

\* LoadPPM on the files of both families
NextDecoder ==
    \/ LoadPPM
    \/ LoadPPM_Header

SpecDecoder == Init /\ [][NextDecoder]_vars

---------------------------------------------------------------------------
(* OBJMesh::LoadTextures, and an OBJMesh over several calls *)

\* the image files a pending path may name: one that decodes and one that
\* does not
TextureFiles ==
    { [magic |-> m, width |-> 1, height |-> 1, maxval |-> 255,
       body |-> Samples(3, 0, m), comments |-> {}, unreadable |-> {}] :
        m \in {"P3", "P2"} }

\* a pending path that is never cleared
PendingKept(path, id) == path

\* m_pendingTexturePath after LoadTextures got this texture id for it
PendingAfterLoad(path, id) == IF id = 0 THEN path ELSE <<>>

\* the name glGenTextures gives next: names are not given twice
NewTextureName(log) == Count(log, {"glGenTextures"}) + 1

\* one LoadTextures call
CallLoadTextures ==
    /\ pc \in Idle
    /\ IF m_pendingTexturePath = <<>>
       THEN /\ calls' = Append(calls, Call("LoadTextures", <<>>, TRUE))
            /\ UNCHANGED <<m_textureID, m_pendingTexturePath, img>>
       ELSE \E opens \in BOOLEAN, glError \in BOOLEAN, file \in TextureFiles :
              LET dec == Decode(opens, glError, file, 0, 0, NewTextureName(calls))
                  id  == dec.textureID
              IN  /\ glError => dec.data # Null
                  /\ img' = dec
                  /\ m_textureID' = id
                  /\ m_pendingTexturePath'
                        = PendingAfterLoad(m_pendingTexturePath, id)
                  /\ calls' = calls
                        \o TextureCalls(dec.data, glError, NewTextureName(calls))
                        \o <<Call("LoadPPM", m_pendingTexturePath, id # 0),
                             Call("LoadTextures", m_pendingTexturePath, id # 0)>>
    /\ UNCHANGED <<pc, filename, line, positions, normals, texCoords, m_triangles,
                   m_material, oob, faceLog, probe>>

LoadTextures ==
    /\ Count(calls, {"LoadOBJ", "LoadTextures"}) < MaxCalls
    /\ CallLoadTextures

\* no mtllib line was read since LoadOBJ opened the file
NoMtllibYet == calls # <<>> /\ calls[Len(calls)].op = "LoadOBJ"

\* an mtllib line that names a material file in a directory of its own
NestedMtllib == Line("mtllib", <<<<"e", "/", "m">>>>)

\* The mesh files read under SpecLife hold their v lines, then their vn lines,
\* then their vt lines, then at most one f line, well formed, and at most one
\* mtllib line, NestedMtllib, which stands anywhere.
NextLife ==
    \/ LoadOBJ_Open
    \/ LoadOBJ_Again
    \/ (NoMtllibYet /\ LoadOBJ_mtllib /\ line' = NestedMtllib)
    \/ (normals = <<>> /\ texCoords = <<>> /\ PoolsFirst /\ LoadOBJ_v)
    \/ (Len(positions) = Len(PosLines) /\ texCoords = <<>> /\ PoolsFirst
          /\ LoadOBJ_vn)
    \/ (Len(normals) = Len(NormalLines) /\ PoolsFirst /\ LoadOBJ_vt)
    \/ (Len(texCoords) = Len(TexLines) /\ PoolsFirst /\ LoadOBJ_f
          /\ line' \in FaceLines)
    \/ LoadOBJ_Return
    \/ LoadTextures

SpecLife == Init /\ [][NextLife]_vars

---------------------------------------------------------------------------
(* Lines the dispatch of LoadOBJ has no branch for *)

\* an empty line, a comment, and directives LoadOBJ does not know
IgnoredLines ==
    { Line("", <<>>),
      Line("#", <<<<"v">>, <<"1">>, <<"2">>, <<"3">>>>),
      Line("usemtl", <<<<"A">>>>),
      Line("vp", <<<<"1">>, <<"2">>, <<"3">>>>) }

\* a dispatch that takes every line it does not know for a v line
DispatchUnknownAsV(type) ==
    IF type \in {"mtllib", "v", "vn", "vt", "f"} THEN type ELSE "v"

\* the branch of the if / else-if chain the first token of a line selects
Dispatch(type) ==
    IF type \in {"mtllib", "v", "vn", "vt", "f"} THEN type ELSE "none"

\* one iteration of the getline loop on a line of IgnoredLines
LoadOBJ_ignored ==
    \E l \in IgnoredLines, g \in Indeterminate :
        /\ ReadLine(l)
        /\ positions' = IF Dispatch(l.type) = "v"
                        THEN PushPosition(positions, l.toks, g)
                        ELSE positions
        /\ (Dispatch(l.type) # "v" \/ ~ReadFails(l.toks, 3)) => g = 0
        /\ oob' = {}
        /\ UNCHANGED <<pc, normals, texCoords, m_triangles, m_material,
                       m_pendingTexturePath, faceLog, m_textureID, calls>>

\* Mesh files that hold such lines anywhere between their mtllib, pool and f
\* lines.
NextIgnored ==
    \/ LoadOBJ_Open
    \/ (NoMtllibYet /\ LoadOBJ_mtllib /\ line' = NestedMtllib)
    \/ (PoolsFirst /\ LoadOBJ_v)
    \/ (PoolsFirst /\ LoadOBJ_vn)
    \/ (PoolsFirst /\ LoadOBJ_vt)
    \/ (/\ Len(positions) = Len(PosLines) /\ Len(normals) = Len(NormalLines)
        /\ Len(texCoords) = Len(TexLines) /\ PoolsFirst
        /\ LoadOBJ_f /\ line' \in FaceLines)
    \/ LoadOBJ_ignored
    \/ LoadOBJ_Return

SpecIgnored == Init /\ [][NextIgnored]_vars

---------------------------------------------------------------------------
(* The paths of material and texture files *)

MaxMtllib == 2        \* mtllib lines in one mesh file

\* mesh paths with no separator, with either separator, and with both
PathObjPaths ==
    { <<"o">>, <<"d", "/", "o">>, <<"d", "\\", "o">>,
      <<"a", "/", "b", "\\", "o">> }

\* mtllib lines that name a material file with and without a directory
PathMtllibLines ==
    { Line("mtllib", <<<<"m">>>>),
      Line("mtllib", <<<<"e", "/", "m">>>>),
      Line("mtllib", <<<<"e", "\\", "m">>>>) }

\* the LoadOBJ call on a mesh file of PathObjPaths
LoadOBJ_OpenPath ==
    /\ pc = "constructed"
    /\ \E f \in PathObjPaths : OpenOBJ(f, TRUE)

\* the mtllib branch on a line of PathMtllibLines
LoadOBJ_mtllibPath ==
    /\ Count(calls, {"LoadMTL"}) < MaxMtllib
    /\ \E l \in PathMtllibLines, opens \in BOOLEAN, content \in MtlFiles :
          Mtllib(l, opens, content)

\* Mesh files of mtllib lines only, at any path.
NextMaterial ==
    \/ LoadOBJ_OpenPath
    \/ LoadOBJ_mtllibPath
    \/ LoadOBJ_Return

SpecMaterial == Init /\ [][NextMaterial]_vars

---------------------------------------------------------------------------
(* OBJMesh::~OBJMesh, and the textures of one OBJMesh *)

MaxLoads == 2         \* LoadOBJ calls made on one OBJMesh before it is destroyed

\* the destructor: glDeleteTextures on m_textureID when it is not 0
Destroy ==
    /\ pc \in Idle
    /\ pc' = "destroyed"
    /\ calls' = calls
          \o (IF m_textureID # 0
              THEN <<Call("glDeleteTextures", Text(m_textureID), TRUE)>>
              ELSE <<>>)
          \o <<Call("~OBJMesh", <<>>, TRUE)>>
    /\ UNCHANGED <<filename, line, positions, normals, texCoords, m_triangles,
                   m_material, m_pendingTexturePath, m_textureID, oob, faceLog,
                   img, probe>>

\* a later LoadOBJ call, of MaxLoads at most
LoadOBJ_Reload ==
    /\ pc \in Idle \ {"constructed"}
    /\ Count(calls, {"LoadOBJ"}) < MaxLoads
    /\ \E f \in ObjPaths, opens \in BOOLEAN : OpenOBJ(f, opens)

\* An OBJMesh from its construction to its destruction: LoadOBJ calls on mesh
\* files of at most one mtllib line, no more LoadTextures calls than LoadOBJ
\* calls, and the destructor.
NextTextures ==
    \/ LoadOBJ_Open
    \/ LoadOBJ_Reload
    \/ (NoMtllibYet /\ LoadOBJ_mtllib /\ line' = NestedMtllib)
    \/ LoadOBJ_Return
    \/ (Count(calls, {"LoadTextures"}) < Count(calls, {"LoadOBJ"})
          /\ CallLoadTextures)
    \/ Destroy

SpecTextures == Init /\ [][NextTextures]_vars

---------------------------------------------------------------------------
(* main *)

\* the calls of main after LoadTextures that cannot end the program, in order
MainTail == <<"VertexSpecification", "GeneratePlaneBufferData", "MainLoop",
              "CleanUp">>

\* a main that goes on to LoadTextures whatever LoadOBJ returned
AfterLoadOBJAnyway(at) ==
    IF at \in {"returnedTrue", "returnedFalse"} THEN "LoadTextures"
    ELSE "LoadOBJ"

\* what main does once gMesh.LoadOBJ(objFile) has returned (at: where that
\* call stands)
AfterLoadOBJ(at) ==
    IF at = "returnedTrue" THEN "LoadTextures"
    ELSE IF at = "returnedFalse" THEN "return 1"
    ELSE "LoadOBJ"

\* the statement main comes to next, from the calls made so far; exit(1) in
\* InitializeProgram and a return from main end the program
MainNext(log, at) ==
    IF at = "exited" THEN "none"
    ELSE IF log = <<>> THEN "InitializeProgram"
    ELSE LET last == log[Len(log)]
         IN  IF last.op = "InitializeProgram" THEN "CreateGraphicsPipeline"
             ELSE IF last.op = "CreateGraphicsPipeline" /\ at = "constructed"
             THEN "LoadOBJ"
             ELSE IF last.op = "LoadTextures" THEN MainTail[1]
             ELSE IF \E k \in 1..(Len(MainTail) - 1) : last.op = MainTail[k]
             THEN MainTail[(CHOOSE k \in 1..(Len(MainTail) - 1) :
                               last.op = MainTail[k]) + 1]
             ELSE IF last.op = MainTail[Len(MainTail)] THEN "return 0"
             ELSE AfterLoadOBJ(at)

\* a statement of main that touches no OBJMesh: the call is added to the
\* history, and the program goes on or ends
MainStep(op, arg, ok, at) ==
    /\ calls' = Append(calls, Call(op, arg, ok))
    /\ pc' = at
    /\ UNCHANGED <<filename, line, positions, normals, texCoords, m_triangles,
                   m_material, m_pendingTexturePath, m_textureID, oob, faceLog,
                   img, probe>>

\* argc < 2: the usage line, return 1
Main_Usage ==
    /\ pc = "constructed" /\ calls = <<>>
    /\ MainStep("return", <<"1">>, FALSE, "exited")

\* InitializeProgram, which calls exit(1) when SDL, the window, the context or
\* GLAD fails
Main_InitializeProgram ==
    /\ MainNext(calls, pc) = "InitializeProgram"
    /\ \E ok \in BOOLEAN :
          MainStep("InitializeProgram", <<>>, ok, IF ok THEN pc ELSE "exited")

Main_CreateGraphicsPipeline ==
    /\ MainNext(calls, pc) = "CreateGraphicsPipeline"
    /\ MainStep("CreateGraphicsPipeline", <<>>, TRUE, pc)

\* gMesh.LoadOBJ(objFile)
Main_LoadOBJ ==
    /\ MainNext(calls, pc) = "LoadOBJ"
    /\ LoadOBJ_Open

\* LoadOBJ returned false: return 1
Main_LoadOBJFailed ==
    /\ MainNext(calls, pc) = "return 1"
    /\ MainStep("return", <<"1">>, FALSE, "exited")

\* gMesh.LoadTextures(), whose result only decides whether a warning is printed
Main_LoadTextures ==
    /\ MainNext(calls, pc) = "LoadTextures"
    /\ CallLoadTextures

\* VertexSpecification, GeneratePlaneBufferData, MainLoop and CleanUp
Main_Proceed ==
    \E k \in 1..Len(MainTail) :
        /\ MainNext(calls, pc) = MainTail[k]
        /\ MainStep(MainTail[k], <<>>, TRUE, pc)

Main_Return ==
    /\ MainNext(calls, pc) = "return 0"
    /\ MainStep("return", <<"0">>, TRUE, "exited")

\* main on a mesh file of v lines and at most one mtllib line
NextMain ==
    \/ Main_Usage
    \/ Main_InitializeProgram
    \/ Main_CreateGraphicsPipeline
    \/ Main_LoadOBJ
    \/ (NoMtllibYet /\ LoadOBJ_mtllib /\ line' = NestedMtllib)
    \/ LoadOBJ_v
    \/ LoadOBJ_Return
    \/ Main_LoadOBJFailed
    \/ Main_LoadTextures
    \/ Main_Proceed
    \/ Main_Return

SpecMain == Init /\ [][NextMain]_vars

---------------------------------------------------------------------------
(* What a face-vertex token says, read off its text *)

RECURSIVE Segments(_)
\* the parts of a token between its slashes
Segments(tok) ==
    LET cuts == { i \in 1..Len(tok) : tok[i] = "/" }
    IN  IF cuts = {} THEN <<tok>>
        ELSE <<SubSeq(tok, 1, Min(cuts) - 1)>>
             \o Segments(SubSeq(tok, Min(cuts) + 1, Len(tok)))

Slot(tok) ==
    LET segs == Segments(tok)
    IN  [v     |-> stoi(segs[1]).val,
         hasVt |-> Len(segs) >= 2 /\ segs[2] # <<>>,
         vt    |-> IF Len(segs) >= 2 THEN stoi(segs[2]).val ELSE 0,
         hasVn |-> Len(segs) >= 3 /\ segs[3] # <<>>,
         vn    |-> IF Len(segs) >= 3 THEN stoi(segs[3]).val ELSE 0]

\* every slot the token has names an entry its pool held when face e was read
TokInRange(tok, e) ==
    LET s == Slot(tok)
    IN  /\ 1 <= s.v /\ s.v <= e.np
        /\ s.hasVt => (1 <= s.vt /\ s.vt <= e.nt)
        /\ s.hasVn => (1 <= s.vn /\ s.vn <= e.nn)

WellFormedFace(e) ==
    Len(e.toks) = 3 /\ \A j \in 1..3 : TokInRange(e.toks[j], e)

\* the token names a position or a normal outside its pool
RefsOutside(tok, e) ==
    LET s == Slot(tok)
    IN  \/ ~(1 <= s.v /\ s.v <= e.np)
        \/ (s.hasVn /\ ~(1 <= s.vn /\ s.vn <= e.nn))

---------------------------------------------------------------------------
(* Claims *)

\* C1: after a successful LoadOBJ of a file whose f lines all have exactly three
\* in-range tokens, GetTriangleCount() is the number of f lines, and the i-th
\* triangle is the one of the i-th f line (its corners carry the positions the
\* line names).
C1_TriangleCount ==
    (pc = "returnedTrue" /\ \A i \in 1..Len(faceLog) : WellFormedFace(faceLog[i]))
    => /\ GetTriangleCount = Len(faceLog)
       /\ \A i \in 1..Len(faceLog), j \in 1..3 :
            LET pos == positions[Slot(faceLog[i].toks[j]).v]
                c   == m_triangles[i][j]
            IN  <<c.x, c.y, c.z>> = pos

C1_Witness ==
    /\ pc = "returnedTrue"
    /\ Len(faceLog) >= 2
    /\ \A i \in 1..Len(faceLog) : WellFormedFace(faceLog[i])
    /\ m_triangles[1] # m_triangles[2]

\* C3: a corner token a/b/c with a, b, c inside their pools gives a Vertex with
\* the position positions[a-1], the texture coordinate texCoords[b-1] and the
\* normal normals[c-1].
C3_IndexTranslation ==
    \A i \in 1..Len(m_triangles), j \in 1..3 :
        LET e == faceLog[i]
        IN  (/\ j <= Len(e.toks)
             /\ Slot(e.toks[j]).hasVt /\ Slot(e.toks[j]).hasVn
             /\ TokInRange(e.toks[j], e))
            => LET s == Slot(e.toks[j])
               IN  m_triangles[i][j]
                     = Vertex(positions[s.v], normals[s.vn], texCoords[s.vt])

C3_Witness ==
    \E i \in 1..Len(m_triangles) :
        /\ faceLog[i].toks[1] = FaceTok("v/vt/vn", 1, 2, 1)
        /\ TokInRange(faceLog[i].toks[1], faceLog[i])
        /\ Len(positions) = 2 /\ Len(texCoords) = 2 /\ Len(normals) = 2

\* C4: every lookup in the texture-coordinate pool made while a triangle is built
\* is inside the pool, also when the pool is still empty.
C4_TexLookupInBounds == "texCoords" \notin oob

\* C5: an f line that names a position or a normal outside its pool makes the
\* decode fail: LoadOBJ returns false, no pool is read outside its bounds and no
\* triangle is appended for the line.
C5_UnresolvedReference ==
    \A i \in 1..Len(faceLog) :
        (\E j \in 1..Len(faceLog[i].toks) : RefsOutside(faceLog[i].toks[j], faceLog[i]))
        => /\ pc = "returnedFalse"
           /\ oob \cap {"positions", "normals"} = {}
           /\ Len(m_triangles) < i

\* C6: a v line with a component that is no number, or is missing, makes the
\* decode fail and appends nothing to the position pool.
C6_MalformedLine ==
    [][(pc = "loading" /\ pc' # "returnedTrue" /\ line' \in MalformedPosLines)
       => (pc' = "returnedFalse" /\ Len(positions') = Len(positions))]_vars

\* C2: for the four token forms ParseVertexIndices returns v-1, vt-1 when the vt
\* slot is there and else 0, vn-1 when the vn slot is there and else 0 (the vt
\* index being one of the pool).
C2_ParseVertexIndices ==
    (/\ probe.called
     /\ probe.form \in {"v/vt", "v/vt/vn"}
           => (1 <= probe.vt /\ probe.vt <= Len(texCoords)))
    => /\ probe.result.ok
       /\ probe.result.v = probe.v - 1
       /\ probe.result.vt = (IF probe.form \in {"v/vt", "v/vt/vn"}
                             THEN probe.vt - 1 ELSE 0)
       /\ probe.result.vn = (IF probe.form \in {"v//vn", "v/vt/vn"}
                             THEN probe.vn - 1 ELSE 0)

\* the samples a file holds after its header, as bytes
FileSamples(file) ==
    LET body == IF file.magic = "P6" /\ file.body # <<>> THEN Tail(file.body)
                ELSE file.body
    IN  [i \in 1..Len(body) |-> body[i].val % 256]

\* the file holds the n samples its header declares, each a number
HoldsAll(file, n) ==
    LET body == IF file.magic = "P6" /\ file.body # <<>> THEN Tail(file.body)
                ELSE file.body
    IN  /\ Len(body) >= n
        /\ \A i \in 1..n : body[i].isNumber
        /\ file.magic = "P6" => file.body # <<>>

Declared(file) == file.width * file.height * 3

\* the pixel of row r, column c (0-based) of a buffer of rows of w pixels
Pixel(buf, r, c, w) ==
    LET at == (r * w + c) * 3 IN <<buf[at + 1], buf[at + 2], buf[at + 3]>>

Swapped(px) == <<px[3], px[2], px[1]>>

\* C7: the input triple at offset i is written at offset total - 3 - i with its
\* channels swapped: output[idx] = in[i+2], output[idx+1] = in[i+1],
\* output[idx+2] = in[i].
C7_FlipSwap ==
    (img.called /\ img.data # Null)
    => LET total == Declared(img.file)
           in    == FileSamples(img.file)
       IN  \A i \in { k \in 0..(total - 1) : k % 3 = 0 } :
              LET idx == total - 3 - i
              IN  /\ img.data[idx + 1] = in[i + 2 + 1]
                  /\ img.data[idx + 1 + 1] = in[i + 1 + 1]
                  /\ img.data[idx + 2 + 1] = in[i + 1]

\* C8: the decoded buffer is the vertical flip of the file image: the pixel at
\* (row r, column c) of the buffer is the file's pixel at (row height-1-r,
\* column c), whichever order its channels are stored in.
C8_VerticalFlip ==
    (img.called /\ img.data # Null)
    => LET w  == img.file.width
           h  == img.file.height
           in == FileSamples(img.file)
       IN  \A r \in 0..(h - 1), c \in 0..(w - 1) :
              LET px == Pixel(in, h - 1 - r, c, w)
              IN  Pixel(img.data, r, c, w) \in {px, Swapped(px)}

\* C9: data is non-null on return only if all width*height*3 samples were read;
\* a file with fewer samples than declared, or with an ASCII sample that is no
\* number, leaves data null and makes LoadPPM return 0.
C9_NoPartialBuffer ==
    img.called
    => /\ img.data # Null
            => /\ HoldsAll(img.file, Declared(img.file))
               /\ Len(img.data) = Declared(img.file)
       /\ ~HoldsAll(img.file, Declared(img.file))
            => /\ img.data = Null
               /\ img.textureID = 0
               /\ img.news = img.deletes

C9_Witness ==
    /\ img.called /\ img.opens
    /\ img.file.magic = "P3" /\ img.file.maxval = 255
    /\ Len(img.file.body) = Declared(img.file)
    /\ \E i \in 1..Len(img.file.body) : ~img.file.body[i].isNumber
    /\ img.news = 2 /\ img.deletes = 2
    /\ img.data = Null /\ img.textureID = 0

\* C10: a file whose magic token is neither P3 nor P6, or whose max value is
\* above 255, is rejected: no buffer is allocated, data stays null and LoadPPM
\* returns 0.
C10_Rejects ==
    (/\ img.called /\ img.opens
     /\ (img.file.magic \notin {"P3", "P6"} \/ img.file.maxval > 255))
    => /\ img.news = 0
       /\ img.data = Null
       /\ img.textureID = 0

C10_Witness ==
    /\ img.called /\ img.opens
    /\ img.file.magic = "P6" /\ img.file.maxval = 65535
    /\ img.file.width > 0 /\ img.file.height > 0
    /\ HoldsAll(img.file, Declared(img.file))
    /\ img.data = Null /\ img.news = 0 /\ img.textureID = 0

\* C11: a header with # comment lines before any of its three numeric fields
\* decodes to the same width, height and buffer as the file without the comments.
C11_HeaderComments ==
    (/\ img.called /\ img.opens
     /\ img.file.comments # {} /\ img.file.unreadable = {})
    => LET plain == ReadImageData(TRUE, [img.file EXCEPT !.comments = {}], 0, 0)
       IN  /\ img.thrown = plain.thrown
           /\ img.width = plain.width
           /\ img.height = plain.height
           /\ img.data = plain.data

\* C19: a returned buffer comes with a positive width and a positive height and
\* holds width*height*3 bytes; a header with a zero or negative dimension, or a
\* dimension that cannot be read, yields no buffer.
C19_PositiveDims ==
    img.called
    => /\ img.data # Null
            => /\ img.width > 0 /\ img.height > 0
               /\ Len(img.data) = img.width * img.height * 3
       /\ (\/ img.file.width <= 0 \/ img.file.height <= 0
           \/ img.file.unreadable \cap {"width", "height"} # {})
            => img.data = Null

\* the entries a step adds to the history
Added == SubSeq(calls', Len(calls) + 1, Len(calls'))

Last(log) == log[Len(log)]

\* the step is, or belongs to, a call of this function
StepOf(op) == Added # <<>> /\ Last(Added).op = op

\* C12: a LoadTextures call whose pending image decodes sets a non-zero texture
\* id and empties the pending path; a LoadTextures call that follows a successful
\* one with no LoadOBJ in between returns true, does not call the image decoder
\* and leaves m_textureID and the pending path as they were.
C12_LoadTexturesOnce ==
    [][StepOf("LoadTextures")
       => /\ (/\ m_pendingTexturePath # <<>>
              /\ img'.data # Null /\ img'.textureID # 0)
             => /\ m_textureID' = img'.textureID /\ m_textureID' # 0
                /\ m_pendingTexturePath' = <<>>
                /\ Last(Added).ok
          /\ (/\ calls # <<>>
              /\ Last(calls).op = "LoadTextures" /\ Last(calls).ok)
             => /\ Len(Added) = 1
                /\ Last(Added).ok
                /\ img' = img
                /\ m_textureID' = m_textureID
                /\ m_pendingTexturePath' = m_pendingTexturePath]_vars

C12_Witness ==
    \E i \in 1..(Len(calls) - 1) :
        /\ calls[i].op = "LoadTextures" /\ calls[i].ok /\ calls[i].arg # <<>>
        /\ calls[i + 1].op = "LoadTextures" /\ calls[i + 1].ok
        /\ m_textureID # 0 /\ m_pendingTexturePath = <<>>

\* C13: after any LoadTextures call, successful or not, the pending path is
\* empty, so that a further call does not try the image again.
C13_PendingConsumed ==
    (calls # <<>> /\ Last(calls).op = "LoadTextures")
    => m_pendingTexturePath = <<>>

\* C14: no step of LoadOBJ, its LoadMTL calls included, calls the image decoder
\* or changes m_textureID; a map_Kd line only stores the path.
C14_NoDecodeInLoadOBJ ==
    [][(pc = "loading" \/ StepOf("LoadOBJ"))
       => /\ img' = img
          /\ m_textureID' = m_textureID
          /\ \A i \in 1..Len(Added) : Added[i].op # "LoadPPM"]_vars

C14_Witness ==
    /\ pc = "returnedTrue"
    /\ m_material.diffuseTexture # <<>> /\ m_pendingTexturePath # <<>>
    /\ img = NoImage /\ m_textureID = 0

\* C15: an mtllib line whose material file does not open leaves the decode
\* running and the triangle list, the pools, the material and the pending path
\* as they were, so the lines after it are read as if it had not been there.
C15_MissingMaterial ==
    [][(StepOf("LoadMTL") /\ ~Last(Added).ok)
       => /\ pc' = "loading"
          /\ UNCHANGED <<m_triangles, positions, normals, texCoords, m_material,
                         m_pendingTexturePath>>]_vars

C15_Witness ==
    /\ pc = "returnedTrue"
    /\ Last(calls).op = "LoadMTL" /\ ~Last(calls).ok
    /\ line.type = "f" /\ Len(m_triangles) = 1
    /\ m_pendingTexturePath = <<>>

\* C16: a LoadOBJ call on a path that does not open returns false and leaves the
\* triangle list, the pools, the material and the pending path as they were; a
\* LoadTextures call whose image does not open or decode returns false.
C16_UnreadableFile ==
    [][/\ (StepOf("LoadOBJ") /\ ~Last(Added).ok)
          => /\ pc' = "returnedFalse"
             /\ UNCHANGED <<m_triangles, positions, normals, texCoords,
                            m_material, m_pendingTexturePath>>
       /\ (StepOf("LoadTextures") /\ Len(Added) = 2 /\ img'.data = Null)
          => ~Last(Added).ok]_vars

C16_Witness ==
    /\ pc = "returnedFalse"
    /\ Last(calls).op = "LoadOBJ" /\ ~Last(calls).ok
    /\ Len(m_triangles) = 1 /\ Len(positions) = Len(PosLines)
    /\ m_pendingTexturePath # <<>>

\* C17: after a successful LoadOBJ of a file without mtllib line, with no
\* LoadTextures call made so far, the object is as a fresh one that loaded this
\* file: no material, no pending texture path, the pools those of the file.
C17_NoCarryOver ==
    (/\ pc = "returnedTrue"
     /\ Last(calls).op = "LoadOBJ"
     /\ Count(calls, {"LoadTextures"}) = 0)
    => /\ m_material = EmptyMaterial
       /\ m_pendingTexturePath = <<>>
       /\ positions = [i \in 1..Len(positions) |->
                          ReadFloats(PosLines[i].toks, 3, 0)]
       /\ Len(m_triangles) = Len(faceLog)

\* C18: an f line that does not hold exactly three vertex references adds no
\* triangle, and one with fewer than three makes the decode return a failure
\* instead of ending the program.
C18_NotATriangle ==
    [][(pc = "loading" /\ faceLog' # faceLog /\ Len(line'.toks) # 3)
       => /\ m_triangles' = m_triangles
          /\ Len(line'.toks) < 3 => pc' = "returnedFalse"]_vars

\* a normal <<n1, len>>, <<n2, len>>, <<n3, len>> has length 1
IsUnit(n) ==
    /\ n[1][2] > 0
    /\ n[1][1] * n[1][1] + n[2][1] * n[2][1] + n[3][1] * n[3][1]
         = n[1][2] * n[1][2]

\* C20: every normal of the normal pool, and every normal of every Vertex of
\* every triangle, has unit length, whatever the vn line held.
C20_UnitNormals ==
    /\ \A i \in 1..Len(normals) : IsUnit(normals[i])
    /\ \A i \in 1..Len(m_triangles), j \in 1..3 :
          LET c == m_triangles[i][j] IN IsUnit(<<c.nx, c.ny, c.nz>>)

---------------------------------------------------------------------------
(* The vt branch *)

\* the two numbers written on a vt line
Written(l) == <<stoi(l.toks[1]).val, stoi(l.toks[2]).val>>

\* C21: the texcoord pool holds, in file order, exactly the (s, t) written on
\* the vt lines read, the second component not replaced by 1 - t; and a corner
\* of a triangle whose token names a texcoord inside the pool carries that
\* same (s, t).
C21_TexCoordsUnmodified ==
    /\ Len(texCoords) <= Len(TexLines)
    /\ \A i \in 1..Len(texCoords) : texCoords[i] = Written(TexLines[i])
    /\ \A k \in 1..Len(m_triangles), j \in 1..3 :
           LET e == faceLog[k]
           IN  (/\ j <= Len(e.toks)
                /\ Slot(e.toks[j]).hasVt
                /\ TokInRange(e.toks[j], e))
               => <<m_triangles[k][j].s, m_triangles[k][j].t>>
                     = Written(TexLines[Slot(e.toks[j]).vt])

\* a decoded mesh with both vt lines and a triangle whose corner names the
\* second one
C21_Witness ==
    /\ pc = "returnedTrue"
    /\ texCoords = <<<<2, 3>>, <<5, 7>>>>
    /\ \E k \in 1..Len(m_triangles), j \in 1..3 :
           /\ j <= Len(faceLog[k].toks)
           /\ TokInRange(faceLog[k].toks[j], faceLog[k])
           /\ Slot(faceLog[k].toks[j]).vt = 2
           /\ m_triangles[k][j].s = 5
           /\ m_triangles[k][j].t = 7

---------------------------------------------------------------------------
(* Lines of no known kind *)

\* the first tokens LoadOBJ has a branch for
KnownTypes == {"v", "vn", "vt", "mtllib", "f"}

\* C22: an iteration of the getline loop on a line whose first token is none of
\* v, vn, vt, mtllib, f (an empty line and a comment line among them) leaves the
\* three pools, the triangle list, the material and the pending texture path as
\* they were, and LoadOBJ goes on to the next line.
C22_IgnoredLine ==
    [][(pc = "loading" /\ pc' # "returnedTrue" /\ line'.type \notin KnownTypes)
         => /\ UNCHANGED <<positions, normals, texCoords, m_triangles,
                           m_material, m_pendingTexturePath>>
            /\ pc' = "loading"]_vars

\* an unknown directive was the last line read, after pool lines, a material
\* and a face, and LoadOBJ is still reading
C22_Witness ==
    /\ pc = "loading"
    /\ line = Line("usemtl", <<<<"A">>>>)
    /\ Len(positions) = 2
    /\ Len(m_triangles) = 1
    /\ m_pendingTexturePath # <<>>

---------------------------------------------------------------------------
(* The binary read *)

\* the 1-based place in data of the sample read i-th (from 0) into copyData
Flipped(i, total) == (total - 3 - 3 * (i \div 3)) + (i % 3) + 1

\* the byte values that are whitespace codes
WhitespaceCodes == {9, 10, 13, 32}

---------------------------------------------------------------------------
(* Material and texture paths *)

\* p up to and with its last '/' or '\', empty when it has neither
Dir(p) ==
    LET seps == { i \in 1..Len(p) : p[i] = "/" \/ p[i] = "\\" }
    IN  IF seps = {} THEN <<>> ELSE SubSeq(p, 1, Max(seps))

\* the places of the history that hold a directive of this kind
Places(log, op) == { i \in 1..Len(log) : log[i].op = op }

\* C24: on an mtllib line LoadMTL is called with mtlPath = dir(objPath) +
\* mtlName, and when the material file has a map_Kd line the pending texture
\* path becomes dir(mtlPath) + texName, texName being the name on the last such
\* line; dir(p) is p up to and with its last '/' or '\', or empty.
C24_TexturePath ==
    [][(pc = "loading" /\ StepOf("LoadMTL"))
       => LET mtlPath == Dir(filename) \o line'.toks[1]
              kd      == Places(Added, "map_Kd")
          IN  /\ line'.type = "mtllib"
              /\ Last(Added).arg = mtlPath
              /\ kd # {} =>
                   m_pendingTexturePath' = Dir(mtlPath) \o Added[Max(kd)].arg
              /\ kd = {} => UNCHANGED m_pendingTexturePath]_vars

\* a mesh at a/b\o named the material file e\m, whose map_Kd line named s/u
C24_Witness ==
    /\ pc = "loading"
    /\ filename = <<"a", "/", "b", "\\", "o">>
    /\ line = Line("mtllib", <<<<"e", "\\", "m">>>>)
    /\ Last(calls) = Call("LoadMTL", <<"a", "/", "b", "\\", "e", "\\", "m">>, TRUE)
    /\ m_pendingTexturePath = <<"a", "/", "b", "\\", "e", "\\", "s", "/", "u">>

\* C25: one material and one pending path are kept: the material name is the
\* one of the last newmtl line processed, the diffuse texture the one of the
\* last map_Kd line, and the pending path the one that map_Kd line gave, in
\* whichever material file of the mesh the lines stood.
C25_LastDirectiveWins ==
    LET nm == Places(calls, "newmtl")
        kd == Places(calls, "map_Kd")
    IN  /\ m_material.name = IF nm = {} THEN <<>> ELSE calls[Max(nm)].arg
        /\ m_material.diffuseTexture
              = IF kd = {} THEN <<>> ELSE calls[Max(kd)].arg
        /\ m_pendingTexturePath
              = IF kd = {} THEN <<>>
                ELSE LET mtl == Min({ j \in Places(calls, "LoadMTL") : j > Max(kd) })
                     IN  Dir(calls[mtl].arg) \o calls[Max(kd)].arg

\* LoadOBJ returned after two material files with newmtl and map_Kd lines, the
\* names of the first file differing from those kept
C25_Witness ==
    /\ pc = "returnedTrue"
    /\ Cardinality(Places(calls, "LoadMTL")) = 2
    /\ \E i, j \in Places(calls, "newmtl") :
          i < j /\ calls[i].arg # calls[j].arg /\ m_material.name = calls[j].arg
    /\ \E i, j \in Places(calls, "map_Kd") :
          /\ i < j /\ calls[i].arg # calls[j].arg
          /\ m_material.diffuseTexture = calls[j].arg
          /\ \E k \in Places(calls, "LoadMTL") : i < k /\ k < j

---------------------------------------------------------------------------
(* The textures of an OBJMesh *)

\* how often the history holds this GL call on texture name n
Times(log, op, n) ==
    Cardinality({ i \in 1..Len(log) : log[i].op = op /\ log[i].arg = Text(n) })

\* the texture names created and not deleted
Live(log) ==
    { n \in 1..Len(log) :
        Times(log, "glGenTextures", n) > Times(log, "glDeleteTextures", n) }

\* C28: m_textureID names every texture of the object that is alive, so none is
\* overwritten while alive, no texture is deleted twice, and once the object is
\* destroyed none of its textures is left.
C28_TexturesDeletedOnce ==
    /\ \A n \in Live(calls) : m_textureID = n
    /\ \A n \in 1..Len(calls) :
          Times(calls, "glDeleteTextures", n) <= Times(calls, "glGenTextures", n)
    /\ pc = "destroyed" => Live(calls) = {}

---------------------------------------------------------------------------
(* The byte buffers of the image decoder *)

\* the places of the events of one kind on one buffer
Where(ev, op, buf) == { i \in 1..Len(ev) : ev[i].op = op /\ ev[i].buf = buf }

\* C27: in one LoadPPM call each of the two buffers is allocated at most once
\* and released as often as allocated, every access to it lies between the
\* two; copyData is released by ReadImageData; data is released by
\* ReadImageData when it hands back null, and else by LoadPPM, after the upload
\* has read it, nothing touching it afterwards.
C27_BuffersReleasedOnce ==
    img.called =>
        LET ev == img.events
        IN  /\ \A buf \in {"copyData", "data"} :
                  LET news == Where(ev, "new", buf)
                      dels == Where(ev, "delete", buf)
                  IN  /\ Cardinality(news) <= 1
                      /\ Cardinality(dels) = Cardinality(news)
                      /\ \A i \in 1..Len(ev) :
                            ev[i].buf = buf
                            => /\ news # {}
                               /\ Min(news) <= i /\ i <= Max(dels)
            /\ \A i \in Where(ev, "delete", "copyData") :
                  ev[i].by = "ReadImageData"
            /\ \A i \in Where(ev, "delete", "data") :
                  IF img.data = Null THEN ev[i].by = "ReadImageData"
                  ELSE /\ ev[i].by = "LoadPPM"
                       /\ \E j \in Where(ev, "read", "data") :
                             j < i /\ ev[j].by = "LoadPPM"

\* a decode that uploaded its buffer, and one whose read failed after both
\* buffers were allocated, are told apart by who released data; this is the
\* first
C27_Witness ==
    /\ img.called /\ img.data # Null /\ img.textureID # 0
    /\ Len(img.data) = 12
    /\ Where(img.events, "new", "data") = {3}
    /\ Where(img.events, "delete", "data") = {8}
    /\ img.events[8].by = "LoadPPM"

---------------------------------------------------------------------------
(* The order of main *)

\* C26: main calls LoadTextures only once InitializeProgram has completed and
\* LoadOBJ has returned true; when LoadOBJ has returned false the one step left
\* is the return with status 1, after which nothing is called; and after
\* LoadTextures, whatever it returned, main goes on to VertexSpecification,
\* GeneratePlaneBufferData and the main loop.
C26_MainSequence ==
    [][/\ StepOf("LoadTextures")
          => /\ pc = "returnedTrue"
             /\ \E j \in Places(calls, "InitializeProgram") : calls[j].ok
             /\ \E j \in Places(calls, "LoadOBJ") : calls[j].ok
       /\ pc = "returnedFalse"
          => /\ Added = <<Call("return", <<"1">>, FALSE)>>
             /\ pc' = "exited"
       /\ pc # "exited"
       /\ (calls # <<>> /\ Last(calls).op = "LoadTextures")
          => StepOf("VertexSpecification")
       /\ (calls # <<>> /\ Last(calls).op = "VertexSpecification")
          => StepOf("GeneratePlaneBufferData")
       /\ (calls # <<>> /\ Last(calls).op = "GeneratePlaneBufferData")
          => StepOf("MainLoop")]_vars

\* LoadTextures returned false and main is in its main loop
C26_Witness ==
    /\ calls # <<>> /\ Last(calls).op = "MainLoop"
    /\ \E i \in Places(calls, "LoadTextures") :
          /\ ~calls[i].ok
          /\ calls[i + 1].op = "VertexSpecification"
    /\ m_textureID = 0 /\ m_pendingTexturePath # <<>>

---------------------------------------------------------------------------
(* Pools in file order *)

IsPrefix(a, b) == Len(a) <= Len(b) /\ SubSeq(b, 1, Len(a)) = a

\* C29: while LoadOBJ reads a file each pool only grows at its end, the entries
\* it holds staying as they are; an f line is resolved against the pools as
\* they stand when it is read: a slot that names an entry inside its pool gets
\* that entry, and a slot that names an entry a later line defines finds no
\* entry: the read is outside the pool or, of a texture coordinate, falls back
\* to the first entry.
C29_ResolvedAtReadTime ==
    [][pc = "loading"
       => /\ IsPrefix(positions, positions')
          /\ IsPrefix(normals, normals')
          /\ IsPrefix(texCoords, texCoords')
          /\ faceLog' # faceLog
             => \A j \in 1..3 :
                  LET s == Slot(line'.toks[j])
                  IN  /\ s.v > Len(positions) => "positions" \in oob'
                      /\ (s.hasVn /\ s.vn > Len(normals)) => "normals" \in oob'
                      /\ (s.hasVt /\ s.vt > Len(texCoords))
                         => \/ "texCoords" \in oob'
                            \/ /\ texCoords # <<>>
                               /\ Len(m_triangles') = Len(m_triangles) + 1
                                  => <<Last(m_triangles')[j].s,
                                       Last(m_triangles')[j].t>> = texCoords[1]
                      /\ (s.v <= Len(positions)
                            /\ Len(m_triangles') = Len(m_triangles) + 1)
                         => <<Last(m_triangles')[j].x, Last(m_triangles')[j].y,
                              Last(m_triangles')[j].z>> = positions[s.v]]_vars

\* the f line named the second position when the pool held one, the read of
\* the pool went on, and the second v line came after it
C29_Witness ==
    /\ pc = "returnedTrue"
    /\ Len(faceLog) = 1 /\ faceLog[1].np = 1
    /\ \E j \in 1..3 : Slot(faceLog[1].toks[j]).v = 2
    /\ Len(m_triangles) = 1
    /\ Len(positions) = 2
    /\ m_triangles[1][1].x = positions[1][1]

---------------------------------------------------------------------------
(* The post-processing pass as a map on byte positions *)

\* the pass applied to the positions 1..total themselves: at place k stands
\* the input position whose byte the pass writes there, or -1 where it writes
\* none
Source(total) == Flip([i \in 1..total |-> i], total)

\* C30: the pass moves every input byte to one output position and leaves no
\* output position without one, so it is a bijection on the positions
\* 1..width*height*3, for an image of no pixel too; the buffer holds at each
\* place the byte of its source position, and the pass applied to the buffer
\* gives the samples back in the order of the file.
C30_FlipBijectionInvolution ==
    (img.called /\ img.data # Null)
    => LET total == Declared(img.file)
           in    == SubSeq(FileSamples(img.file), 1, total)
           src   == Source(total)
       IN  /\ Len(img.data) = total
           /\ \A i \in 1..total :
                 Cardinality({ k \in 1..total : src[k] = i }) = 1
           /\ \A k \in 1..total : src[k] \in 1..total
           /\ \A k \in 1..total : img.data[k] = in[src[k]]
           /\ Flip(img.data, total) = in

\* a 2 by 2 image was decoded: its bytes stand at other places than in the
\* file, and the pass applied again puts them back
C30_Witness ==
    /\ img.called /\ img.data # Null
    /\ img.file.width = 2 /\ img.file.height = 2
    /\ img.data # SubSeq(FileSamples(img.file), 1, 12)
    /\ Flip(img.data, 12) = SubSeq(FileSamples(img.file), 1, 12)
    /\ img.data[10] = FileSamples(img.file)[1]

====
